---- MODULE Spec2Model ----
(***************************************************************************)
(* nameko/dependencies.py: declaration of dependency / injection /         *)
(* entrypoint factories, the shared-instance policy of DependencyFactory,  *)
(* discovery of the providers of a service container, and the inject /     *)
(* release pair of InjectionProvider.                                      *)
(*                                                                         *)
(* Python objects are modelled by identity: a DependencyFactory is an      *)
(* index into the heap `factories`, a provider instance an index into the  *)
(* heap `instances`.  The client program is a service class "Service"      *)
(* with data attributes SlotNames and one method, and provider classes     *)
(* Types that carry data attributes SlotNames of their own.                *)
(*                                                                         *)
(* The module is Python 2 code (__metaclass__, unbound methods found by    *)
(* inspect.ismethod): a class that defines __eq__ keeps object.__hash__,   *)
(* so the WeakSet registries, the set on a method and the                  *)
(* WeakKeyDictionary cache all tell factories apart by identity.           *)
(***************************************************************************)
EXTENDS Naturals, Sequences, FiniteSets, TLC

\* ---------------------------------------------------------------- bounds
MaxFactories == 3      \* DependencyFactory objects the client declares
NumContainers == 2     \* service containers that run discovery
MaxOddAttrs == 1       \* class attributes that hold no factory
MaxDepth == 5          \* nested generators the interpreter allows

\* ------------------------------------------------------- client program
Types == {"T1", "T2", "T3"}          \* provider classes (dep_cls values)
Service == "Service"                 \* container.service_cls
Owners == {Service} \cup Types       \* classes whose bodies hold attributes
SlotNames == <<"a", "b">>            \* data attribute names, in sorted order
MethodName == "m"                    \* the one method of the service class
Containers == 1 .. NumContainers

\* The class that a dependency declared in the body of `owner` produces:
\* the client's provider classes form the chain Service -> T1 -> T2 -> T3.
ProducedBy(owner) ==
    CASE owner = Service -> "T1"
      [] owner = "T1" -> "T2"
      [] owner = "T2" -> "T3"
      [] OTHER -> "T3"

\* ------------------------------------------------------------- variables
VARIABLES
    factories,                \* heap of DependencyFactory objects (by index)
    registered_dependencies,  \* WeakSet of factories
    registered_injections,    \* WeakSet of factories
    nameko_entrypoints,       \* fn.nameko_entrypoints of the method: None or a set
    cls_attrs,                \* cls_attrs[owner][name]: the attribute's value
    shared_dependencies,      \* WeakKeyDictionary factory -> instance
    cache_reads,              \* factories for which shared_dependencies.get ran
    instances,                \* heap of provider instances (by index)
    pc,                       \* per container: position of its discovery
    stack,                    \* per container: the generator frames
    call,                     \* per container: the create_and_bind_instance call
    yielded,                  \* per container: what get_dependencies yielded
    returns,                  \* the calls of create_and_bind_instance so far
    raised,                   \* exception raised by the last operation
    decl_pos,                 \* next statement of the client module to execute
    worker,                   \* the service instance of the current worker
    last,                     \* the last declaration: its return value and the
                              \* arguments it called the client's function with
    request                   \* per container: the generator the consumer called

vars == <<factories, registered_dependencies, registered_injections,
          nameko_entrypoints, cls_attrs, shared_dependencies, cache_reads,
          instances, pc, stack, call, yielded, returns, raised, decl_pos,
          worker, last, request>>

declVars == <<factories, registered_dependencies, registered_injections,
              nameko_entrypoints, cls_attrs, decl_pos, last>>
runVars == <<shared_dependencies, cache_reads, instances, pc, stack, call,
             yielded, returns, worker, request>>

\* ---------------------------------------------------------------- values
\* A Python value: a DependencyFactory (by identity), or something else.
FactoryRef(i) == [kind |-> "factory", id |-> i]
Absent == [kind |-> "absent", id |-> 0]

\* isinstance(v, DependencyFactory)
IsFactory(v) == v.kind = "factory"

\* A function object: the method of the service class, or the plain
\* function HelperFn of the client module.
HelperFn == "g"
Functions == {MethodName, HelperFn}
FunctionRef(fn) == [kind |-> "function", id |-> IF fn = MethodName THEN 1 ELSE 2]
NoValue == [kind |-> "none", id |-> 0]

\* Argument values: plain values, and the function HelperFn.  Keyword
\* arguments are a set of <<key, value>> pairs with distinct keys.
\* isinstance(v, types.FunctionType)
IsFunction(v) == v \in Functions

HasKey(kwargs, key) == \E p \in kwargs : p[1] = key
ValueOf(kwargs, key) == (CHOOSE p \in kwargs : p[1] = key)[2]
Without(kwargs, key) == {p \in kwargs : p[1] # key}

\* DependencyFactory.__init__; `shared` is the class attribute False.
DependencyFactory(dep_cls, init_args, init_kwargs) ==
    [dep_cls |-> dep_cls, args |-> init_args, kwargs |-> init_kwargs,
     shared |-> FALSE]

\* self.args == other.args on tuples: same length and equal elements.
TupleEq(x, y) ==
    /\ Len(x) = Len(y)
    /\ \A i \in 1 .. Len(x) : x[i] = y[i]

\* self.kwargs == other.kwargs on dicts: same keys and equal values.
DictEq(x, y) ==
    /\ {p[1] : p \in x} = {p[1] : p \in y}
    /\ \A p \in x : ValueOf(y, p[1]) = p[2]

\* Faulty variant: the keyword arguments are left out of the comparison.
DependencyFactory_eq_without_kwargs(heap, self, other) ==
    IF ~IsFactory(other)
    THEN FALSE
    ELSE /\ heap[self].dep_cls = heap[other.id].dep_cls
         /\ TupleEq(heap[self].args, heap[other.id].args)

\* DependencyFactory.__eq__(self, other) for the factory `self` of the heap
\* `heap` and a value `other`; dep_cls is compared with `is`.
DependencyFactory_eq(heap, self, other) ==
    IF ~IsFactory(other)
    THEN FALSE
    ELSE /\ heap[self].dep_cls = heap[other.id].dep_cls
         /\ TupleEq(heap[self].args, heap[other.id].args)
         /\ DictEq(heap[self].kwargs, heap[other.id].kwargs)

\* The client's factory-producing functions: fn(*args, **kwargs) returns
\* DependencyFactory(fn.dep_cls, *args, **kwargs), or a plain value.
GoodFn(t) == [returns |-> "factory", dep_cls |-> t]
BadFn == [returns |-> "plain", dep_cls |-> "T1"]

\* Faulty variant: any DependencyFactory counts as registered.
InRegistry_any_factory(v, registry) == IsFactory(v)

\* weakref-set membership: hash by identity, so only the very object matches.
InRegistry(v, registry) == IsFactory(v) /\ v.id \in registry

NoExc == "none"
NoCall == [factory |-> 0, name |-> "", instance |-> 0]
NoDecl == [returned |-> NoValue, fn_args |-> <<>>, fn_kwargs |-> {}]
Called(returned, fn_args, fn_kwargs) ==
    [returned |-> returned, fn_args |-> fn_args, fn_kwargs |-> fn_kwargs]

\* The client module, in source order: the class bodies of the provider
\* classes, then the body of the service class, whose method comes last.
DeclOrder ==
    << <<"T2", "a">>, <<"T2", "b">>, <<"T1", "a">>, <<"T1", "b">>,
       <<Service, "a">>, <<Service, "b">>, <<Service, MethodName>> >>

PosOf(owner, name) ==
    CHOOSE i \in 1 .. Len(DeclOrder) : DeclOrder[i] = <<owner, name>>

Max(S) == CHOOSE x \in S : \A y \in S : y <= x
Min(S) == CHOOSE x \in S : \A y \in S : x <= y

\* Class bodies run at import, before any container is constructed.
Declaring == \A c \in Containers : pc[c] = "idle"

\* ---------------------------------------------------------- registration
register_dependency(factory) ==
    registered_dependencies' = registered_dependencies \cup {factory}

register_injection(factory) ==
    registered_injections' = registered_injections \cup {factory}

\* Faulty variant: the set takes a factory equal by __eq__ to one it holds
\* for already present.
register_entrypoint_by_equality(fn, provider) ==
    LET descriptors == IF nameko_entrypoints[fn].attached
                       THEN nameko_entrypoints[fn].descriptors
                       ELSE {}
        present == \E d \in descriptors :
                      DependencyFactory_eq(factories', d, FactoryRef(provider))
    IN nameko_entrypoints' =
         [nameko_entrypoints EXCEPT
            ![fn] = [attached |-> TRUE,
                     descriptors |-> IF present THEN descriptors
                                     ELSE descriptors \cup {provider}]]

\* Faulty variant: a fresh set on every registration.
register_entrypoint_overwrite(fn, provider) ==
    nameko_entrypoints' =
      [nameko_entrypoints EXCEPT
         ![fn] = [attached |-> TRUE, descriptors |-> {provider}]]

\* register_entrypoint(fn, provider): create the set on first use, then add.
register_entrypoint(fn, provider) ==
    LET descriptors == IF nameko_entrypoints[fn].attached
                       THEN nameko_entrypoints[fn].descriptors
                       ELSE {}
    IN nameko_entrypoints' =
         [nameko_entrypoints EXCEPT
            ![fn] = [attached |-> TRUE,
                     descriptors |-> descriptors \cup {provider}]]

\* `n1 = n2 = value` in the class body of owner.
AssignAttrs(owner, names, value) ==
    cls_attrs' = [cls_attrs EXCEPT
                    ![owner] = [n \in DOMAIN cls_attrs[owner] |->
                                  IF n \in names THEN value
                                  ELSE cls_attrs[owner][n]]]

\* The statement at (owner, names) is still ahead in the client module.
CanDeclare(owner, names) ==
    /\ Declaring
    /\ names # {}
    /\ \A n \in names : PosOf(owner, n) >= decl_pos
    /\ Len(factories) < MaxFactories

Advance(owner, names) ==
    decl_pos' = Max({PosOf(owner, n) : n \in names}) + 1

\* Faulty variant: the shared keyword is read and left among the keyword
\* arguments passed to fn.
dependency_forwards_shared(fn, args, kwargs, owner, names) ==
    /\ CanDeclare(owner, names)
    /\ LET shared == IF HasKey(kwargs, "shared")
                     THEN ValueOf(kwargs, "shared") = "True"
                     ELSE FALSE
       IN IF fn.returns # "factory"
          THEN /\ raised' = "DependencyTypeError"
               /\ last' = Called(NoValue, args, kwargs)
               /\ UNCHANGED <<factories, registered_dependencies, cls_attrs,
                              decl_pos>>
          ELSE LET factory == Len(factories) + 1
               IN /\ factories' =
                       Append(factories,
                              [DependencyFactory(fn.dep_cls, args, kwargs)
                                 EXCEPT !.shared = shared])
                  /\ register_dependency(factory)
                  /\ AssignAttrs(owner, names, FactoryRef(factory))
                  /\ Advance(owner, names)
                  /\ last' = Called(FactoryRef(factory), args, kwargs)
                  /\ raised' = NoExc
    /\ UNCHANGED <<registered_injections, nameko_entrypoints>>
    /\ UNCHANGED runVars

\* dependency(fn).wrapped(*args, **kwargs), its result assigned to the
\* attributes `names` of class `owner`:
\* shared = kwargs.pop('shared', False); factory = fn(*args, **kwargs)
dependency(fn, args, kwargs, owner, names) ==
    /\ CanDeclare(owner, names)
    /\ LET shared == IF HasKey(kwargs, "shared")
                     THEN ValueOf(kwargs, "shared") = "True"
                     ELSE FALSE
           rest == Without(kwargs, "shared")
       IN IF fn.returns # "factory"
          THEN /\ raised' = "DependencyTypeError"
               /\ last' = Called(NoValue, args, rest)
               /\ UNCHANGED <<factories, registered_dependencies, cls_attrs,
                              decl_pos>>
          ELSE LET factory == Len(factories) + 1
               IN /\ factories' =
                       Append(factories,
                              [DependencyFactory(fn.dep_cls, args, rest)
                                 EXCEPT !.shared = shared])
                  /\ register_dependency(factory)
                  /\ AssignAttrs(owner, names, FactoryRef(factory))
                  /\ Advance(owner, names)
                  /\ last' = Called(FactoryRef(factory), args, rest)
                  /\ raised' = NoExc
    /\ UNCHANGED <<registered_injections, nameko_entrypoints>>
    /\ UNCHANGED runVars

\* injection(fn).wrapped(*args, **kwargs), its result assigned to attribute
\* `name` of the service class.
injection(fn, args, kwargs, name) ==
    /\ CanDeclare(Service, {name})
    /\ IF fn.returns # "factory"
       THEN /\ raised' = "DependencyTypeError"
            /\ last' = Called(NoValue, args, kwargs)
            /\ UNCHANGED <<factories, registered_injections, cls_attrs,
                           decl_pos>>
       ELSE LET factory == Len(factories) + 1
            IN /\ factories' =
                    Append(factories,
                           DependencyFactory(fn.dep_cls, args, kwargs))
               /\ register_injection(factory)
               /\ AssignAttrs(Service, {name}, FactoryRef(factory))
               /\ Advance(Service, {name})
               /\ last' = Called(FactoryRef(factory), args, kwargs)
               /\ raised' = NoExc
    /\ UNCHANGED <<registered_dependencies, nameko_entrypoints>>
    /\ UNCHANGED runVars

\* Faulty variant: the factory set is attached to the method before the type check.
registering_decorator_register_first(decorator_func, fn, args, kwargs) ==
    IF decorator_func.returns # "factory"
    THEN /\ raised' = "DependencyTypeError"
         /\ last' = Called(NoValue, args, kwargs)
         /\ nameko_entrypoints' =
              [nameko_entrypoints EXCEPT ![fn].attached = TRUE]
         /\ UNCHANGED factories
    ELSE LET factory == Len(factories) + 1
         IN /\ factories' =
                 Append(factories,
                        DependencyFactory(decorator_func.dep_cls, args,
                                          kwargs))
            /\ register_entrypoint(fn, factory)
            /\ last' = Called(FunctionRef(fn), args, kwargs)
            /\ raised' = NoExc

\* entrypoint(decorator_func).registering_decorator(fn, args, kwargs):
\* factory = decorator_func(*args, **kwargs); register; return fn
registering_decorator(decorator_func, fn, args, kwargs) ==
    IF decorator_func.returns # "factory"
    THEN /\ raised' = "DependencyTypeError"
         /\ last' = Called(NoValue, args, kwargs)
         /\ UNCHANGED <<factories, nameko_entrypoints>>
    ELSE LET factory == Len(factories) + 1
         IN /\ factories' =
                 Append(factories,
                        DependencyFactory(decorator_func.dep_cls, args,
                                          kwargs))
            /\ register_entrypoint(fn, factory)
            /\ last' = Called(FunctionRef(fn), args, kwargs)
            /\ raised' = NoExc

\* `name = value` in the class body of owner, for a value that is no
\* factory: "plain" (hashable), "unhashable" (__hash__ is None, weakly
\* referenceable), "raises_AttributeError" and "raises" (a descriptor whose
\* access raises AttributeError, or another exception).
OddKinds == {"plain", "unhashable", "raises_AttributeError", "raises"}

OddAttrs ==
    {on \in Owners \X {"a", "b"} : cls_attrs[on[1]][on[2]].kind \in OddKinds}

assign_value(owner, name, kind) ==
    /\ Declaring
    /\ PosOf(owner, name) >= decl_pos
    /\ Cardinality(OddAttrs) < MaxOddAttrs
    /\ AssignAttrs(owner, {name}, [kind |-> kind, id |-> 0])
    /\ Advance(owner, {name})
    /\ raised' = NoExc
    /\ last' = NoDecl
    /\ UNCHANGED <<factories, registered_dependencies, registered_injections,
                   nameko_entrypoints>>
    /\ UNCHANGED runVars

\* Faulty variant: every call of wrapper is taken for the call with arguments.
wrapper_always_partial(args, kwargs) ==
    [direct |-> FALSE, fn |-> "", args |-> args, kwargs |-> kwargs]

\* entrypoint(decorator_func).wrapper(*args, **kwargs): a single positional
\* argument that is a function is taken for the decorated function (the
\* bare usage, whatever the keyword arguments); anything else gives
\* partial(registering_decorator, args=args, kwargs=kwargs).
wrapper(args, kwargs) ==
    IF Len(args) = 1 /\ IsFunction(args[1])
    THEN [direct |-> TRUE, fn |-> args[1], args |-> <<>>, kwargs |-> {}]
    ELSE [direct |-> FALSE, fn |-> "", args |-> args, kwargs |-> kwargs]

\* The decoration of the method of the service class: bare (`@e`, that is
\* wrapper(method)) or with arguments (`@e(*args, **kwargs)`, that is
\* wrapper(*args, **kwargs) applied to the method).  When wrapper has taken
\* its one argument for the decorated function it has registered on that
\* function and returned it; the method gets no factory.
entrypoint(decorator_func, bare, args, kwargs) ==
    /\ CanDeclare(Service, {MethodName})
    /\ LET w == IF bare THEN wrapper(<<MethodName>>, {})
                        ELSE wrapper(args, kwargs)
       IN IF w.direct
          THEN registering_decorator(decorator_func, w.fn, w.args, w.kwargs)
          ELSE registering_decorator(decorator_func, MethodName, w.args,
                                     w.kwargs)
    /\ decl_pos' = IF decorator_func.returns = "factory"
                   THEN PosOf(Service, MethodName)
                   ELSE decl_pos
    /\ UNCHANGED <<registered_dependencies, registered_injections, cls_attrs>>
    /\ UNCHANGED runVars

\* ------------------------------------------------------------ discovery
SlotIdx == 1 .. Len(SlotNames)

Frame(kind, obj, idx, pending) ==
    [kind |-> kind, obj |-> obj, idx |-> idx, pending |-> pending]

Top(c) == stack[c][Len(stack[c])]
Pop(c) == SubSeq(stack[c], 1, Len(stack[c]) - 1)
ReplaceTop(c, f) == [stack[c] EXCEPT ![Len(stack[c])] = f]

\* The class whose attributes a frame scans: the service class, or the class
\* of the provider instance (its factories are class attributes).
ScannedClass(f) == IF f.obj = 0 THEN Service ELSE instances[f.obj].dep_cls

\* inspect.getmembers yields the members sorted by name: the indices, from
\* the frame's position on, of the attributes found in `registry`.
Matching(f, registry) ==
    {i \in SlotIdx :
        /\ i >= f.idx
        /\ InRegistry(cls_attrs[ScannedClass(f)][SlotNames[i]], registry)}

\* shared_dependencies.get(factory)
CacheGet(factory) ==
    IF factory \in DOMAIN shared_dependencies
    THEN shared_dependencies[factory]
    ELSE 0

\* Faulty variant: the cache is consulted whatever the shared flag.
EnterCall_always_lookup(c, factory, name) ==
    /\ call' = [call EXCEPT ![c] =
                  [factory |-> factory, name |-> name, instance |-> 0]]
    /\ pc' = [pc EXCEPT ![c] = "lookup"]

\* Entry of factory.create_and_bind_instance(name, container): `if self.shared`.
EnterCall(c, factory, name) ==
    /\ call' = [call EXCEPT ![c] =
                  [factory |-> factory, name |-> name, instance |-> 0]]
    /\ pc' = [pc EXCEPT ![c] =
                IF factories[factory].shared THEN "lookup" ELSE "construct"]

\* The generator the consumer iterates, and its include_dependencies.
Request(entry, include_dependencies) ==
    [entry |-> entry, include_dependencies |-> include_dependencies]
NoRequest == Request("none", FALSE)

\* What the consumer of the generator receives.
Yield(c, inst, parent, heap) ==
    Append(yielded[c],
           [inst |-> inst,
            via |-> stack[c][1].kind,
            parent |-> parent,
            name |-> heap[inst].name,
            container |-> heap[inst].container])

\* Faulty variant: the chain holds get_entrypoint_providers alone.
get_dependencies_entrypoints_only(c) ==
    /\ pc[c] = "idle"
    /\ pc' = [pc EXCEPT ![c] = "run"]
    /\ stack' = [stack EXCEPT ![c] =
         <<Frame("ep", 0, 1,
                 IF nameko_entrypoints[MethodName].attached
                 THEN nameko_entrypoints[MethodName].descriptors
                 ELSE {})>>]
    /\ request' = [request EXCEPT ![c] = Request("get_dependencies", TRUE)]
    /\ raised' = NoExc
    /\ UNCHANGED <<shared_dependencies, cache_reads, instances, call, yielded,
                   returns>>
    /\ UNCHANGED <<declVars, worker>>

\* get_dependencies(container): the chain starts with get_injection_providers;
\* both generators of the chain get include_dependencies=True.
get_dependencies(c) ==
    /\ pc[c] = "idle"
    /\ pc' = [pc EXCEPT ![c] = "run"]
    /\ stack' = [stack EXCEPT ![c] = <<Frame("inj", 0, 1, {})>>]
    /\ request' = [request EXCEPT ![c] = Request("get_dependencies", TRUE)]
    /\ raised' = NoExc
    /\ UNCHANGED <<shared_dependencies, cache_reads, instances, call, yielded,
                   returns>>
    /\ UNCHANGED <<declVars, worker>>

\* A consumer calls get_injection_providers(container, include_dependencies)
\* on its own.
call_get_injection_providers(c, include_dependencies) ==
    /\ pc[c] = "idle"
    /\ pc' = [pc EXCEPT ![c] = "run"]
    /\ stack' = [stack EXCEPT ![c] = <<Frame("inj", 0, 1, {})>>]
    /\ request' = [request EXCEPT ![c] =
                     Request("get_injection_providers", include_dependencies)]
    /\ raised' = NoExc
    /\ UNCHANGED <<shared_dependencies, cache_reads, instances, call, yielded,
                   returns>>
    /\ UNCHANGED <<declVars, worker>>

\* A consumer calls get_entrypoint_providers(container, include_dependencies)
\* on its own.
call_get_entrypoint_providers(c, include_dependencies) ==
    /\ pc[c] = "idle"
    /\ pc' = [pc EXCEPT ![c] = "run"]
    /\ stack' = [stack EXCEPT ![c] =
         <<Frame("ep", 0, 1,
                 IF nameko_entrypoints[MethodName].attached
                 THEN nameko_entrypoints[MethodName].descriptors
                 ELSE {})>>]
    /\ request' = [request EXCEPT ![c] =
                     Request("get_entrypoint_providers", include_dependencies)]
    /\ raised' = NoExc
    /\ UNCHANGED <<shared_dependencies, cache_reads, instances, call, yielded,
                   returns>>
    /\ UNCHANGED <<declVars, worker>>

\* inspect.getmembers(obj) reads every attribute before the loop starts and
\* skips only those whose access raises AttributeError: any other exception
\* raised by an attribute's access propagates.
RaisesOnAccess(t) == \E n \in {"a", "b"} : cls_attrs[t][n].kind = "raises"

\* `attr in registered_injections` hashes the attribute through its weak
\* reference: an unhashable object that can be weakly referenced raises
\* TypeError.  The indices, from the frame's position on, of such members.
Unhashable(f) ==
    {i \in SlotIdx :
        /\ i >= f.idx
        /\ cls_attrs[ScannedClass(f)][SlotNames[i]].kind = "unhashable"}

\* An exception leaves the generators: discovery of the container is over.
Abort(c, exc) ==
    /\ pc' = [pc EXCEPT ![c] = "aborted"]
    /\ stack' = [stack EXCEPT ![c] = <<>>]
    /\ raised' = exc
    /\ UNCHANGED call

\* get_injection_providers(container, include_dependencies): the loop over
\* the members of the service class up to the next registered injection
\* factory; at the end the generator is exhausted, and the chain of
\* get_dependencies moves on to get_entrypoint_providers.
get_injection_providers(c) ==
    /\ pc[c] = "run"
    /\ Top(c).kind = "inj"
    /\ LET f == Top(c)
           found == Matching(f, registered_injections)
           bad == Unhashable(f)
       IN IF RaisesOnAccess(Service)
          THEN Abort(c, "Exception")
          ELSE IF bad # {} /\ (found = {} \/ Min(bad) < Min(found))
          THEN Abort(c, "TypeError")
          ELSE IF found # {}
          THEN LET i == Min(found)
               IN /\ stack' = [stack EXCEPT
                                 ![c] = ReplaceTop(c, [f EXCEPT !.idx = i + 1])]
                  /\ EnterCall(c, cls_attrs[Service][SlotNames[i]].id,
                               SlotNames[i])
                  /\ UNCHANGED raised
          ELSE IF request[c].entry = "get_dependencies"
          THEN /\ stack' = [stack EXCEPT ![c] =
                   <<Frame("ep", 0, 1,
                           IF nameko_entrypoints[MethodName].attached
                           THEN nameko_entrypoints[MethodName].descriptors
                           ELSE {})>>]
               /\ UNCHANGED <<pc, call, raised>>
          ELSE /\ stack' = [stack EXCEPT ![c] = <<>>]
               /\ pc' = [pc EXCEPT ![c] = "done"]
               /\ UNCHANGED <<call, raised>>
    /\ UNCHANGED <<shared_dependencies, cache_reads, instances, yielded,
                   returns>>
    /\ UNCHANGED <<declVars, worker, request>>

\* get_entrypoint_providers(container, include_dependencies): the loop
\* over the factories attached to the method, in the set's iteration order.
get_entrypoint_providers(c) ==
    /\ pc[c] = "run"
    /\ Top(c).kind = "ep"
    /\ LET f == Top(c)
       IN IF RaisesOnAccess(Service)
          THEN Abort(c, "Exception")
          ELSE IF f.pending # {}
          THEN \E factory \in f.pending :
                 /\ stack' = [stack EXCEPT ![c] =
                      ReplaceTop(c, [f EXCEPT
                                       !.pending = f.pending \ {factory}])]
                 /\ EnterCall(c, factory, MethodName)
                 /\ UNCHANGED raised
          ELSE /\ stack' = [stack EXCEPT ![c] = <<>>]
               /\ pc' = [pc EXCEPT ![c] = "done"]
               /\ UNCHANGED <<call, raised>>
    /\ UNCHANGED <<shared_dependencies, cache_reads, instances, yielded,
                   returns>>
    /\ UNCHANGED <<declVars, worker, request>>

\* Faulty variant: the scanned provider itself is yielded after its dependencies.
get_dependency_providers_yield_root(c) ==
    /\ pc[c] = "run"
    /\ Top(c).kind = "dep"
    /\ LET f == Top(c)
           found == Matching(f, registered_dependencies)
       IN IF RaisesOnAccess(ScannedClass(f))
          THEN Abort(c, "Exception") /\ UNCHANGED yielded
          ELSE IF found # {}
          THEN LET i == Min(found)
               IN /\ stack' = [stack EXCEPT
                                 ![c] = ReplaceTop(c, [f EXCEPT !.idx = i + 1])]
                  /\ EnterCall(c, cls_attrs[ScannedClass(f)][SlotNames[i]].id,
                               SlotNames[i])
                  /\ UNCHANGED <<yielded, raised>>
          ELSE /\ stack' = [stack EXCEPT ![c] = Pop(c)]
               /\ yielded' =
                    [yielded EXCEPT ![c] =
                       Yield(c, f.obj, stack[c][Len(stack[c]) - 1].obj,
                             instances)]
               /\ UNCHANGED <<pc, call, raised>>
    /\ UNCHANGED <<shared_dependencies, cache_reads, instances, returns>>
    /\ UNCHANGED <<declVars, worker, request>>

\* Faulty variant: the inner generator does not return when the members are
\* exhausted.
get_dependency_providers_never_returns(c) ==
    /\ pc[c] = "run"
    /\ Top(c).kind = "dep"
    /\ LET f == Top(c)
           found == Matching(f, registered_dependencies)
       IN IF RaisesOnAccess(ScannedClass(f))
          THEN Abort(c, "Exception") /\ UNCHANGED yielded
          ELSE IF found # {}
          THEN LET i == Min(found)
               IN /\ stack' = [stack EXCEPT
                                 ![c] = ReplaceTop(c, [f EXCEPT !.idx = i + 1])]
                  /\ EnterCall(c, cls_attrs[ScannedClass(f)][SlotNames[i]].id,
                               SlotNames[i])
                  /\ UNCHANGED <<yielded, raised>>
          ELSE UNCHANGED <<stack, yielded, pc, call, raised>>
    /\ UNCHANGED <<shared_dependencies, cache_reads, instances, returns>>
    /\ UNCHANGED <<declVars, worker, request>>

\* get_dependency_providers(container, provider): the inner generator
\* get_dependencies(obj), up to the next registered dependency factory among
\* the hashable members of obj; when the members are exhausted the frame
\* returns, and the calling frame yields the provider it had created
\* (line 322).
get_dependency_providers(c) ==
    /\ pc[c] = "run"
    /\ Top(c).kind = "dep"
    /\ LET f == Top(c)
           found == Matching(f, registered_dependencies)
       IN IF RaisesOnAccess(ScannedClass(f))
          THEN Abort(c, "Exception") /\ UNCHANGED yielded
          ELSE IF found # {}
          THEN LET i == Min(found)
               IN /\ stack' = [stack EXCEPT
                                 ![c] = ReplaceTop(c, [f EXCEPT !.idx = i + 1])]
                  /\ EnterCall(c, cls_attrs[ScannedClass(f)][SlotNames[i]].id,
                               SlotNames[i])
                  /\ UNCHANGED <<yielded, raised>>
          ELSE /\ stack' = [stack EXCEPT ![c] = Pop(c)]
               /\ yielded' =
                    IF stack[c][Len(stack[c]) - 1].kind = "dep"
                    THEN [yielded EXCEPT ![c] =
                            Yield(c, f.obj, stack[c][Len(stack[c]) - 1].obj,
                                  instances)]
                    ELSE yielded
               /\ UNCHANGED <<pc, call, raised>>
    /\ UNCHANGED <<shared_dependencies, cache_reads, instances, returns>>
    /\ UNCHANGED <<declVars, worker, request>>

\* create_and_bind_instance, line 206: instance = shared_dependencies.get(self)
lookup_shared(c) ==
    /\ pc[c] = "lookup"
    /\ cache_reads' = cache_reads \cup {call[c].factory}
    /\ LET instance == CacheGet(call[c].factory)
       IN IF instance = 0
          THEN /\ pc' = [pc EXCEPT ![c] = "construct"]
               /\ UNCHANGED call
          ELSE /\ pc' = [pc EXCEPT ![c] = "bind"]
               /\ call' = [call EXCEPT ![c].instance = instance]
    /\ UNCHANGED <<shared_dependencies, instances, stack, yielded, returns,
                   raised>>
    /\ UNCHANGED <<declVars, worker, request>>

\* create_and_bind_instance, lines 208 and 210:
\* instance = self.dep_cls(*self.args, **self.kwargs)
construct_instance(c) ==
    /\ pc[c] = "construct"
    /\ instances' = Append(instances,
                           [dep_cls |-> factories[call[c].factory].dep_cls,
                            factory |-> call[c].factory,
                            name |-> "",
                            container |-> 0])
    /\ call' = [call EXCEPT ![c].instance = Len(instances) + 1]
    /\ pc' = [pc EXCEPT ![c] = "bind"]
    /\ UNCHANGED <<shared_dependencies, cache_reads, stack, yielded, returns,
                   raised>>
    /\ UNCHANGED <<declVars, worker, request>>

\* Faulty variant: bind records the container and leaves the name unset.
bind_container_only(instance, name, container) ==
    instances' = [instances EXCEPT ![instance].container = container]

\* DependencyProvider.bind(name, container)
bind(instance, name, container) ==
    instances' = [instances EXCEPT ![instance].name = name,
                                   ![instance].container = container]

\* Faulty variant: the dependencies of a top-level provider are discovered
\* whatever include_dependencies says.
bind_and_return_always_descends(c) ==
    /\ pc[c] = "bind"
    /\ bind(call[c].instance, call[c].name, c)
    /\ yielded' =
         IF Top(c).kind = "dep"
         THEN yielded
         ELSE [yielded EXCEPT ![c] = Yield(c, call[c].instance, 0, instances')]
    /\ returns' = Append(returns,
                         [factory |-> call[c].factory,
                          name |-> call[c].name,
                          container |-> c,
                          instance |-> call[c].instance,
                          bound_name |-> instances'[call[c].instance].name,
                          bound_container |->
                              instances'[call[c].instance].container])
    /\ call' = [call EXCEPT ![c] = NoCall]
    /\ IF Len(stack[c]) >= MaxDepth
       THEN /\ pc' = [pc EXCEPT ![c] = "aborted"]
            /\ stack' = [stack EXCEPT ![c] = <<>>]
            /\ raised' = "RuntimeError"
       ELSE /\ stack' = [stack EXCEPT ![c] =
                   Append(stack[c], Frame("dep", call[c].instance, 1, {}))]
            /\ pc' = [pc EXCEPT ![c] = "run"]
            /\ UNCHANGED raised
    /\ UNCHANGED <<shared_dependencies, cache_reads>>
    /\ UNCHANGED <<declVars, worker, request>>

\* create_and_bind_instance, lines 211-212: bind and return to the caller.
\* A top-level provider is yielded at once, and with include_dependencies
\* its dependencies follow; a dependency is yielded only after its own
\* dependencies.  Each level of get_dependency_providers is one more nested
\* generator: beyond the interpreter's recursion limit the call raises
\* RuntimeError.
bind_and_return(c) ==
    /\ pc[c] = "bind"
    /\ bind(call[c].instance, call[c].name, c)
    /\ yielded' =
         IF Top(c).kind = "dep"
         THEN yielded
         ELSE [yielded EXCEPT ![c] = Yield(c, call[c].instance, 0, instances')]
    /\ returns' = Append(returns,
                         [factory |-> call[c].factory,
                          name |-> call[c].name,
                          container |-> c,
                          instance |-> call[c].instance,
                          bound_name |-> instances'[call[c].instance].name,
                          bound_container |->
                              instances'[call[c].instance].container])
    /\ call' = [call EXCEPT ![c] = NoCall]
    /\ IF ~request[c].include_dependencies
       THEN /\ pc' = [pc EXCEPT ![c] = "run"]
            /\ UNCHANGED <<stack, raised>>
       ELSE IF Len(stack[c]) >= MaxDepth
       THEN /\ pc' = [pc EXCEPT ![c] = "aborted"]
            /\ stack' = [stack EXCEPT ![c] = <<>>]
            /\ raised' = "RuntimeError"
       ELSE /\ stack' = [stack EXCEPT ![c] =
                   Append(stack[c], Frame("dep", call[c].instance, 1, {}))]
            /\ pc' = [pc EXCEPT ![c] = "run"]
            /\ UNCHANGED raised
    /\ UNCHANGED <<shared_dependencies, cache_reads>>
    /\ UNCHANGED <<declVars, worker, request>>

\* --------------------------------------------------------------- workers
\* The instance attributes of a service object: absent ("missing"), set by
\* the service's own __init__ ("own"), or the value acquire_injection
\* returned ("injected").
NoWorker ==
    [container |-> 0, attrs |-> [n \in {"a", "b"} |-> "missing"],
     before |-> [n \in {"a", "b"} |-> "missing"], provider |-> 0,
     phase |-> "none"]

\* The providers of container c that is_injection_provider accepts: those
\* get_injection_providers created for the service class.
InjectionProviders(c) ==
    {yielded[c][k].inst : k \in
        {k \in DOMAIN yielded[c] :
            yielded[c][k].via = "inj" /\ yielded[c][k].parent = 0}}

\* worker_ctx.service: the container instantiates the service class for a
\* worker; `own` are the attributes its __init__ sets.
spawn_worker(c, own) ==
    /\ pc[c] = "done"
    /\ worker.phase \in {"none", "released"}
    /\ worker' = [container |-> c, attrs |-> own, before |-> own,
                  provider |-> 0, phase |-> "ready"]
    /\ UNCHANGED <<shared_dependencies, cache_reads, instances, pc, stack,
                   call, yielded, returns, raised, request>>
    /\ UNCHANGED declVars

\* InjectionProvider.inject(worker_ctx):
\* setattr(service, self.name, self.acquire_injection(worker_ctx))
inject(p) ==
    /\ worker.phase = "ready"
    /\ p \in InjectionProviders(worker.container)
    /\ LET injection_name == instances[p].name
       IN worker' = [worker EXCEPT !.attrs[injection_name] = "injected",
                                   !.before = worker.attrs,
                                   !.provider = p,
                                   !.phase = "injected"]
    /\ UNCHANGED <<shared_dependencies, cache_reads, instances, pc, stack,
                   call, yielded, returns, raised, request>>
    /\ UNCHANGED declVars

\* Faulty variant: release leaves the injected attribute on the service object.
release_keeps_attribute(p) ==
    /\ worker.phase = "injected"
    /\ worker.provider = p
    /\ worker' = [worker EXCEPT !.phase = "released"]
    /\ UNCHANGED <<shared_dependencies, cache_reads, instances, pc, stack,
                   call, yielded, returns, raised, request>>
    /\ UNCHANGED declVars

\* InjectionProvider.release(worker_ctx): delattr(service, self.name)
release(p) ==
    /\ worker.phase = "injected"
    /\ worker.provider = p
    /\ LET injection_name == instances[p].name
       IN worker' = [worker EXCEPT !.attrs[injection_name] = "missing",
                                   !.phase = "released"]
    /\ UNCHANGED <<shared_dependencies, cache_reads, instances, pc, stack,
                   call, yielded, returns, raised, request>>
    /\ UNCHANGED declVars

\* ------------------------------------------------------- specification
\* Argument lists of the client's declarations.
ArgLists == {<<>>, <<"v1">>, <<HelperFn>>}
KwargSets == {{}, {<<"k", "v1">>}}
SharedKwargs == {{}, {<<"shared", "True">>}, {<<"shared", "False">>}}

Init ==
    /\ factories = <<>>
    /\ registered_dependencies = {}
    /\ registered_injections = {}
    /\ nameko_entrypoints =
         [fn \in Functions |-> [attached |-> FALSE, descriptors |-> {}]]
    /\ cls_attrs = [o \in Owners |-> [n \in {"a", "b"} |-> Absent]]
    /\ shared_dependencies = [f \in {} |-> 0]
    /\ cache_reads = {}
    /\ instances = <<>>
    /\ pc = [c \in Containers |-> "idle"]
    /\ stack = [c \in Containers |-> <<>>]
    /\ call = [c \in Containers |-> NoCall]
    /\ yielded = [c \in Containers |-> <<>>]
    /\ returns = <<>>
    /\ raised = NoExc
    /\ decl_pos = 1
    /\ worker = NoWorker
    /\ last = NoDecl
    /\ request = [c \in Containers |-> NoRequest]

\* Containers are numbered in the order of their construction, and a
\* container runs get_dependencies to completion in its constructor: the
\* earlier containers are done and the later ones have not begun.
Quiet(c) ==
    \A d \in Containers \ {c} :
        IF d < c THEN pc[d] \in {"done", "aborted"} ELSE pc[d] = "idle"

\* The keyword arguments `shared=True`, or none.
SharedKw(shared) == IF shared THEN {<<"shared", "True">>} ELSE {}

Declare ==
    \/ \E owner \in {Service, "T1", "T2"}, shared \in BOOLEAN,
          names \in (SUBSET {"a", "b"}) \ {{}} :
         \E fn \in {GoodFn(ProducedBy(owner)), BadFn} :
           dependency(fn, <<>>, SharedKw(shared), owner, names)
    \/ \E name \in {"a", "b"}, fn \in {GoodFn("T1"), BadFn} :
         injection(fn, <<>>, {}, name)
    \/ \E bare \in BOOLEAN, fn \in {GoodFn("T1"), BadFn} :
         entrypoint(fn, bare, <<>>, {})

Discover(c) ==
    \/ get_injection_providers(c)
    \/ get_entrypoint_providers(c)
    \/ get_dependency_providers(c)
    \/ lookup_shared(c)
    \/ construct_instance(c)
    \/ bind_and_return(c)

Next ==
    \/ Declare
    \/ \E c \in Containers : Quiet(c) /\ get_dependencies(c)
    \/ \E c \in Containers : Discover(c)

Spec == Init /\ [][Next]_vars

\* Discovery of two containers interleaved at every step, for a service
\* class with injections whose providers carry (shared) dependencies.
DeclareConc ==
    \/ \E shared \in BOOLEAN, names \in (SUBSET {"a", "b"}) \ {{}} :
         dependency(GoodFn("T2"), <<>>, SharedKw(shared), "T1", names)
    \/ injection(GoodFn("T1"), <<>>, {}, "a")

NextConc ==
    \/ DeclareConc
    \/ \E c \in {1, 2} : get_dependencies(c)
    \/ \E c \in {1, 2} : Discover(c)

SpecConc == Init /\ [][NextConc]_vars

\* Discovery of service and provider classes that also carry attributes
\* which are no factories.
NextEdge ==
    \/ Declare
    \/ \E owner \in {Service, "T1", "T2"}, name \in {"a", "b"},
          kind \in OddKinds :
         assign_value(owner, name, kind)
    \/ \E c \in Containers : Quiet(c) /\ get_dependencies(c)
    \/ \E c \in Containers : Discover(c)

SpecEdge == Init /\ [][NextEdge]_vars

\* Workers of containers whose service class carries injections, the
\* providers of which may carry a dependency.
DeclareWorker ==
    \/ \E name \in {"a", "b"} : injection(GoodFn("T1"), <<>>, {}, name)
    \/ \E shared \in BOOLEAN :
         dependency(GoodFn("T2"), <<>>, SharedKw(shared), "T1", {"a"})

NextWorker ==
    \/ DeclareWorker
    \/ \E c \in Containers : Quiet(c) /\ get_dependencies(c)
    \/ \E c \in Containers : Discover(c)
    \/ \E c \in Containers, own \in [{"a", "b"} -> {"missing", "own"}] :
         spawn_worker(c, own)
    \/ \E p \in DOMAIN instances : inject(p)
    \/ \E p \in DOMAIN instances : release(p)

SpecWorker == Init /\ [][NextWorker]_vars

\* Declarations with arguments, and no discovery.
NextDecl ==
    \/ \E args \in {<<>>, <<"v1">>}, kwargs \in KwargSets,
          shared \in SharedKwargs, name \in {"a", "b"},
          fn \in {GoodFn("T1"), GoodFn("T2"), BadFn} :
         dependency(fn, args, kwargs \cup shared, "T1", {name})
    \/ \E args \in {<<>>, <<"v1">>}, kwargs \in KwargSets,
          fn \in {GoodFn("T1"), BadFn} :
         injection(fn, args, kwargs, "a")
    \/ \E fn \in {GoodFn("T1"), BadFn} : entrypoint(fn, TRUE, <<>>, {})
    \/ \E fn \in {GoodFn("T1"), BadFn}, args \in ArgLists,
          kwargs \in KwargSets :
         entrypoint(fn, FALSE, args, kwargs)

SpecDecl == Init /\ [][NextDecl]_vars

\* The two generators called on their own, with and without
\* include_dependencies, by two containers one after the other.
DeclareIncl ==
    \/ \E owner \in {"T1", "T2"}, name \in {"a", "b"}, shared \in BOOLEAN :
         dependency(GoodFn(ProducedBy(owner)), <<>>, SharedKw(shared), owner,
                    {name})
    \/ \E name \in {"a", "b"} : injection(GoodFn("T1"), <<>>, {}, name)
    \/ entrypoint(GoodFn("T1"), TRUE, <<>>, {})

NextIncl ==
    \/ DeclareIncl
    \/ \E c \in {1, 2}, include_dependencies \in BOOLEAN :
         Quiet(c) /\ call_get_injection_providers(c, include_dependencies)
    \/ \E c \in {1, 2}, include_dependencies \in BOOLEAN :
         Quiet(c) /\ call_get_entrypoint_providers(c, include_dependencies)
    \/ \E c \in {1, 2} : Discover(c)

SpecIncl == Init /\ [][NextIncl]_vars

\* Provider classes whose dependency factories may produce any provider
\* class, their own included; the consumer iterates get_dependencies to its
\* end, so a discovery that can take a step takes one.
DeclareCyclic ==
    \/ \E owner \in {"T1", "T2"}, name \in {"a", "b"}, t \in Types,
          shared \in BOOLEAN :
         dependency(GoodFn(t), <<>>, SharedKw(shared), owner, {name})
    \/ injection(GoodFn("T1"), <<>>, {}, "a")

NextCyclic ==
    \/ DeclareCyclic
    \/ get_dependencies(1)
    \/ Discover(1)

SpecCyclic == Init /\ [][NextCyclic]_vars /\ WF_vars(Discover(1))

\* ---------------------------------------------------------------- claims
IsShared(f) == factories[f].shared
InstancesOf(f) == {k \in DOMAIN instances : instances[k].factory = f}
Done(c) == pc[c] = "done"

\* C1: any two calls of create_and_bind_instance on a shared factory return
\* the identical provider instance (the class is constructed at most once
\* per shared factory).
C1_SharedOneInstance ==
    \A i, j \in DOMAIN returns :
        (returns[i].factory = returns[j].factory
            /\ IsShared(returns[i].factory))
        => returns[i].instance = returns[j].instance

\* C2: every call on a non-shared factory returns an instance that no other
\* call returns, and the shared-instance cache is neither read nor written
\* for a non-shared factory.
C2_NonSharedFresh ==
    /\ \A i, j \in DOMAIN returns :
          (i # j /\ ~IsShared(returns[i].factory))
          => returns[i].instance # returns[j].instance
    /\ \A f \in cache_reads \cup DOMAIN shared_dependencies : IsShared(f)

\* A non-shared factory called under two names in one container and again
\* in another container.
C2_Witness ==
    \E i, j, k \in DOMAIN returns :
        /\ ~IsShared(returns[i].factory)
        /\ returns[j].factory = returns[i].factory
        /\ returns[k].factory = returns[i].factory
        /\ returns[i].container = returns[j].container
        /\ returns[i].name # returns[j].name
        /\ returns[i].container # returns[k].container

\* C3: when two containers are inside create_and_bind_instance of the same
\* shared factory at the same time, they hold the same instance, and at
\* most one instance of that factory has been created.
InsideCall(c) == pc[c] \in {"lookup", "construct", "bind"}

C3_ConcurrentFirstAccess ==
    \A c1, c2 \in Containers :
        (/\ c1 # c2
         /\ InsideCall(c1) /\ InsideCall(c2)
         /\ call[c1].factory = call[c2].factory
         /\ IsShared(call[c1].factory))
        => /\ Cardinality(InstancesOf(call[c1].factory)) <= 1
           /\ (call[c1].instance # 0 /\ call[c2].instance # 0)
              => call[c1].instance = call[c2].instance

\* Entry i of yielded[c] was discovered, directly or through a chain of
\* providers, on the attributes of the provider of entry j.
RECURSIVE Descends(_, _, _, _)
Descends(c, i, j, fuel) ==
    LET y == yielded[c]
    IN /\ fuel > 0
       /\ \/ y[i].parent = y[j].inst
          \/ \E k \in DOMAIN y :
                /\ y[k].inst = y[i].parent
                /\ Descends(c, k, j, fuel - 1)

\* The registered dependency factories on the attributes of class t.
DependencySlots(t) ==
    {n \in {"a", "b"} : InRegistry(cls_attrs[t][n], registered_dependencies)}

\* C4: get_dependency_providers yields every provider after all providers
\* discovered (transitively) from its own attributes, never yields the
\* provider P it was called for, and for P -> D1 -> D2 yields D2, D1.
C4_DependenciesFirst ==
    \A c \in Containers :
       LET y == yielded[c]
       IN /\ \A i, j \in DOMAIN y :
                (y[j].parent # 0 /\ Descends(c, i, j, Len(y))) => i < j
          /\ \A i, j \in DOMAIN y :
                (y[i].parent # 0 /\ y[j].parent = 0) => y[i].inst # y[j].inst
          /\ \A k \in DOMAIN y :
                (/\ Done(c)
                 /\ y[k].parent = 0
                 /\ Cardinality(DependencySlots("T1")) = 1
                 /\ Cardinality(DependencySlots("T2")) = 1)
                => /\ Len(y) >= k + 2
                   /\ instances[y[k + 1].inst].dep_cls = "T3"
                   /\ y[k + 1].parent = y[k + 2].inst
                   /\ instances[y[k + 2].inst].dep_cls = "T2"
                   /\ y[k + 2].parent = y[k].inst
                   /\ (k + 3 \in DOMAIN y => y[k + 3].parent = 0)

\* A finished discovery in which a dependency of a dependency was yielded.
C4_Witness ==
    \E c \in Containers :
        /\ Done(c)
        /\ \E i, j \in DOMAIN yielded[c] :
              /\ yielded[c][i].parent = yielded[c][j].inst
              /\ yielded[c][j].parent # 0

\* The registered injection factories on the attributes of the service class.
InjectionSlots ==
    {n \in {"a", "b"} :
        InRegistry(cls_attrs[Service][n], registered_injections)}

\* C5: get_dependencies yields everything that get_injection_providers
\* yields before anything that get_entrypoint_providers yields; with one
\* injection attribute and one entrypoint on the method, neither with
\* dependencies, it yields exactly the injection provider, then the
\* entrypoint provider.
C5_InjectionsBeforeEntrypoints ==
    \A c \in Containers :
       LET y == yielded[c]
       IN /\ \A i, j \in DOMAIN y :
                (y[i].via = "inj" /\ y[j].via = "ep") => i < j
          /\ (/\ Done(c)
              /\ Cardinality(InjectionSlots) = 1
              /\ Cardinality(nameko_entrypoints[MethodName].descriptors) = 1
              /\ DependencySlots("T1") = {})
             => /\ Len(y) = 2
                /\ y[1].via = "inj" /\ y[1].parent = 0
                /\ y[1].name \in InjectionSlots
                /\ instances[y[1].inst].factory \in registered_injections
                /\ y[2].via = "ep" /\ y[2].parent = 0
                /\ y[2].name = MethodName
                /\ instances[y[2].inst].factory
                     \in nameko_entrypoints[MethodName].descriptors

\* A finished discovery of a service class with exactly one injection and
\* one entrypoint, neither with dependencies.
C5_Witness ==
    \E c \in Containers :
        /\ Done(c)
        /\ Cardinality(InjectionSlots) = 1
        /\ Cardinality(nameko_entrypoints[MethodName].descriptors) = 1
        /\ DependencySlots("T1") = {}

\* The providers that discovery of c yielded for factory f under name n.
YieldedFor(c, f, n) ==
    {k \in DOMAIN yielded[c] :
        /\ instances[yielded[c][k].inst].factory = f
        /\ instances[yielded[c][k].inst].dep_cls = factories[f].dep_cls
        /\ yielded[c][k].name = n
        /\ yielded[c][k].container = c}

\* C6 as stated: every declared factory (dependency, injection or
\* entrypoint) found on the service class yields exactly one provider of its
\* type, named after the attribute.
C6_Original ==
    \A c \in Containers :
        Done(c) =>
          /\ \A n \in {"a", "b"} :
                IsFactory(cls_attrs[Service][n])
                => Cardinality(YieldedFor(c, cls_attrs[Service][n].id, n)) = 1
          /\ \A f \in nameko_entrypoints[MethodName].descriptors :
                Cardinality(YieldedFor(c, f, MethodName)) = 1

\* C6 amended: an injection factory on a service-class attribute and an
\* entrypoint factory attached to a method each yield exactly one provider
\* of their type, named after the attribute; a factory registered by
\* `dependency` alone yields none when it sits on the service class.
C6_Amended ==
    \A c \in Containers :
        Done(c) =>
          /\ \A n \in {"a", "b"} :
                IsFactory(cls_attrs[Service][n])
                => Cardinality(YieldedFor(c, cls_attrs[Service][n].id, n))
                     = IF cls_attrs[Service][n].id \in registered_injections
                       THEN 1 ELSE 0
          /\ \A f \in nameko_entrypoints[MethodName].descriptors :
                Cardinality(YieldedFor(c, f, MethodName)) = 1

\* A finished discovery of a service class that carries an injection
\* factory, a dependency factory and an entrypoint.
C6_Witness ==
    \E c \in Containers :
        /\ Done(c)
        /\ InjectionSlots # {}
        /\ DependencySlots(Service) # {}
        /\ nameko_entrypoints[MethodName].descriptors # {}

\* The factories made by entrypoint declarations: in neither registry.
EntrypointFactories ==
    {f \in DOMAIN factories :
        f \notin registered_dependencies \cup registered_injections}

\* C7: stacked entrypoint decorators accumulate in the method's set, and
\* get_entrypoint_providers yields one distinct provider per factory of the
\* set, each bound under the method's name.
C7_StackedEntrypoints ==
    /\ nameko_entrypoints[MethodName].descriptors = EntrypointFactories
    /\ \A c \in Containers :
          LET y == yielded[c]
              tops == {k \in DOMAIN y : y[k].via = "ep" /\ y[k].parent = 0}
          IN Done(c) =>
               /\ Cardinality(tops) = Cardinality(EntrypointFactories)
               /\ Cardinality({y[k].inst : k \in tops}) = Cardinality(tops)
               /\ {instances[y[k].inst].factory : k \in tops}
                    = EntrypointFactories
               /\ \A k \in tops : y[k].name = MethodName

\* A finished discovery of a method that carries two entrypoints.
C7_Witness ==
    \E c \in Containers :
        /\ Done(c)
        /\ Cardinality(nameko_entrypoints[MethodName].descriptors) = 2

\* C8: a declaration whose wrapped function returns no DependencyFactory
\* raises DependencyTypeError and leaves the registries and the method's
\* factory set as they were; nothing but a DependencyFactory ever reaches
\* a registry or a method's set.
C8_FailedDeclarationChangesNothing ==
    [][/\ raised' = "DependencyTypeError"
          => UNCHANGED <<registered_dependencies, registered_injections,
                         nameko_entrypoints, factories, cls_attrs>>
       /\ (registered_dependencies' \cup registered_injections'
             \cup nameko_entrypoints'[MethodName].descriptors)
            \subseteq DOMAIN factories']_vars

\* A declaration has failed after another one had registered a factory.
C8_Witness ==
    /\ raised = "DependencyTypeError"
    /\ registered_dependencies \cup registered_injections # {}

\* C9 as stated: inject followed immediately by release leaves every
\* instance attribute of the worker object, the one under the provider's
\* name included, as it was before inject.
C9_Original ==
    worker.phase = "released" => worker.attrs = worker.before

\* C9 amended: inject followed immediately by release leaves every other
\* attribute of the worker object as it was and leaves no instance
\* attribute under the provider's name; the worker object is back in its
\* state before inject exactly when it had no instance attribute of that
\* name.
C9_Amended ==
    worker.phase = "released" =>
       LET injection_name == instances[worker.provider].name
       IN /\ worker.attrs =
               [worker.before EXCEPT ![injection_name] = "missing"]
          /\ (worker.attrs = worker.before
                <=> worker.before[injection_name] = "missing")

\* A worker whose __init__ had set the attribute that an injection provider
\* is named after has been injected and released.
C9_Witness ==
    /\ worker.phase = "released"
    /\ worker.before[instances[worker.provider].name] = "own"

\* C10: an attribute of the scanned object that raises on access or is
\* unhashable is skipped: discovery never aborts, and a finished discovery
\* has yielded a provider for every registered injection factory on the
\* service class.
C10_OddAttributesSkipped ==
    \A c \in Containers :
        /\ pc[c] # "aborted"
        /\ pc[c] \in {"done", "aborted"}
           => \A n \in InjectionSlots :
                 YieldedFor(c, cls_attrs[Service][n].id, n) # {}

\* C11: the bare decoration `@e` and the decoration with an empty argument
\* list `@e()` are the same step: whatever one of them does to the module
\* state the other does too, and each of them calls the factory function
\* with no arguments, returns the decorated method, and adds to the method's
\* set exactly one new factory, equal by __eq__ to a factory made with no
\* arguments.
C11_Step(decorator_func, bare) ==
    entrypoint(decorator_func, bare, <<>>, {}) =>
        LET factory == Len(factories) + 1
        IN /\ last'.returned = FunctionRef(MethodName)
           /\ last'.fn_args = <<>> /\ last'.fn_kwargs = {}
           /\ nameko_entrypoints'[MethodName].attached
           /\ nameko_entrypoints'[MethodName].descriptors =
                nameko_entrypoints[MethodName].descriptors \cup {factory}
           /\ factory \notin nameko_entrypoints[MethodName].descriptors
           /\ DependencyFactory_eq(
                Append(factories',
                       DependencyFactory(decorator_func.dep_cls, <<>>, {})),
                factory, FactoryRef(Len(factories') + 1))

C11_BareEqualsEmptyCall ==
    [][/\ \A decorator_func \in {GoodFn("T1"), BadFn} :
            entrypoint(decorator_func, TRUE, <<>>, {})
                <=> entrypoint(decorator_func, FALSE, <<>>, {})
       /\ \A bare \in BOOLEAN : C11_Step(GoodFn("T1"), bare)]_vars

\* The method has been decorated twice with no arguments: its set holds two
\* factories made with no arguments, and the last decoration returned it.
C11_Witness ==
    /\ Cardinality(nameko_entrypoints[MethodName].descriptors) = 2
    /\ \A f \in nameko_entrypoints[MethodName].descriptors :
         factories[f].args = <<>> /\ factories[f].kwargs = {}
    /\ last.returned = FunctionRef(MethodName)

\* C12: for every argument list, the decoration `@e(*args, **kwargs)` of
\* the method calls the factory function with exactly these arguments and
\* adds the factory it returns to the method's set.
C12_ArgumentsForwarded ==
    [][\A args \in ArgLists, kwargs \in KwargSets :
         entrypoint(GoodFn("T1"), FALSE, args, kwargs) =>
             LET factory == Len(factories) + 1
             IN /\ last'.fn_args = args /\ last'.fn_kwargs = kwargs
                /\ Len(factories') = factory
                /\ factories'[factory].args = args
                /\ factories'[factory].kwargs = kwargs
                /\ nameko_entrypoints'[MethodName].attached
                /\ factory \in nameko_entrypoints'[MethodName].descriptors]_vars

\* C13: DependencyFactory.__eq__ is structural and an equivalence: two
\* factories are equal exactly when they have the same provider type, the
\* same positional and the same keyword arguments, whatever their shared
\* flags; a factory is equal to no value that is not a factory; and __eq__
\* is reflexive, symmetric and transitive on the factories of the heap.
NonFactoryValues == {Absent, NoValue, FunctionRef(MethodName)}

C13_StructuralEquality ==
    LET F == DOMAIN factories
        Eq(f, g) == DependencyFactory_eq(factories, f, FactoryRef(g))
    IN /\ \A f, g \in F :
            Eq(f, g) <=>
                /\ factories[f].dep_cls = factories[g].dep_cls
                /\ factories[f].args = factories[g].args
                /\ factories[f].kwargs = factories[g].kwargs
       /\ \A f \in F, v \in NonFactoryValues :
            ~DependencyFactory_eq(factories, f, v)
       /\ \A f \in F : Eq(f, f)
       /\ \A f, g \in F : Eq(f, g) => Eq(g, f)
       /\ \A f, g, h \in F : Eq(f, g) /\ Eq(g, h) => Eq(f, h)

\* Two distinct factories that are equal although their shared flags
\* differ, and a third of the same type that differs in its arguments only.
C13_Witness ==
    \E f, g, h \in DOMAIN factories :
        /\ f # g
        /\ DependencyFactory_eq(factories, f, FactoryRef(g))
        /\ factories[f].shared # factories[g].shared
        /\ factories[h].dep_cls = factories[f].dep_cls
        /\ ~DependencyFactory_eq(factories, f, FactoryRef(h))

\* C14: every call create_and_bind_instance(name, container) returns an
\* instance whose name and container are the ones given; and every provider
\* a discovery yields carries, when it is yielded, the container being
\* discovered and the name of the attribute that holds its factory: an
\* attribute of the service class, the decorated method, or an attribute of
\* the class of the provider that owns it.
C14_BoundAsCalled ==
    /\ \A i \in DOMAIN returns :
         /\ returns[i].bound_name = returns[i].name
         /\ returns[i].bound_container = returns[i].container
    /\ \A c \in Containers : \A k \in DOMAIN yielded[c] :
         LET y == yielded[c][k]
             factory == instances[y.inst].factory
             owner == IF y.parent = 0 THEN Service
                      ELSE instances[y.parent].dep_cls
         IN /\ y.container = c
            /\ IF y.parent = 0 /\ y.via = "ep"
               THEN /\ y.name = MethodName
                    /\ factory \in nameko_entrypoints[MethodName].descriptors
               ELSE /\ y.name \in {"a", "b"}
                    /\ cls_attrs[owner][y.name] = FactoryRef(factory)

\* The second container has yielded a dependency found under `b` on the
\* class of a provider that the service class holds under `a`, from a
\* shared factory.
C14_Witness ==
    /\ NumContainers >= 2
    /\ \E k \in DOMAIN yielded[2] :
         LET y == yielded[2][k]
         IN /\ y.parent # 0
            /\ y.name = "b"
            /\ instances[y.parent].name = "a"
            /\ y.container = 2
            /\ factories[instances[y.inst].factory].shared

\* C15: a call of a dependency-wrapped function with shared=s (FALSE when
\* the keyword is absent) calls the wrapped function with the other
\* arguments and without the shared keyword, and returns the factory that
\* the function made, with its shared flag set to s, recorded in the
\* dependency registry and not in the injection registry.
C15_Step(args, kwargs, s, name) ==
    LET given == IF s = "omitted" THEN kwargs
                 ELSE kwargs \cup {<<"shared", s>>}
        factory == Len(factories) + 1
    IN dependency(GoodFn("T2"), args, given, "T1", {name}) =>
         /\ last'.fn_args = args
         /\ last'.fn_kwargs = kwargs
         /\ last'.returned = FactoryRef(factory)
         /\ Len(factories') = factory
         /\ factories'[factory] =
              [dep_cls |-> "T2", args |-> args, kwargs |-> kwargs,
               shared |-> (s = "True")]
         /\ factory \in registered_dependencies'
         /\ factory \notin registered_injections'
         /\ registered_dependencies' = registered_dependencies \cup {factory}
         /\ registered_injections' = registered_injections

C15_DependencyShared ==
    [][\A args \in {<<>>, <<"v1">>}, kwargs \in KwargSets,
          s \in {"omitted", "True", "False"}, name \in {"a", "b"} :
         C15_Step(args, kwargs, s, name)]_vars

\* A dependency declared shared with a positional and a keyword argument,
\* and one declared with no shared keyword.
C15_Witness ==
    \E f, g \in registered_dependencies :
        /\ factories[f].shared
        /\ factories[f].args = <<"v1">>
        /\ factories[f].kwargs = {<<"k", "v1">>}
        /\ ~factories[g].shared
        /\ last.returned = FactoryRef(g)
        /\ registered_injections = {}

\* C16: factories that are equal by __eq__ but distinct objects are not
\* merged: every factory an entrypoint declaration made is in the method's
\* set beside the factories equal to it, and a finished discovery has yielded
\* for each of two such factories its own provider, of the same type, under
\* the method's name.
C16_EqualFactoriesKept ==
    \A f, g \in EntrypointFactories :
        f # g /\ DependencyFactory_eq(factories, f, FactoryRef(g)) =>
            /\ {f, g} \subseteq nameko_entrypoints[MethodName].descriptors
            /\ \A c \in Containers :
                 Done(c) =>
                   \E i \in YieldedFor(c, f, MethodName),
                      j \in YieldedFor(c, g, MethodName) :
                       /\ YieldedFor(c, f, MethodName) = {i}
                       /\ YieldedFor(c, g, MethodName) = {j}
                       /\ yielded[c][i].inst # yielded[c][j].inst
                       /\ instances[yielded[c][i].inst].dep_cls
                            = instances[yielded[c][j].inst].dep_cls

\* A finished discovery of a method decorated twice with the same
\* declaration and equal arguments.
C16_Witness ==
    \E c \in Containers, f, g \in EntrypointFactories :
        /\ f # g
        /\ DependencyFactory_eq(factories, f, FactoryRef(g))
        /\ Done(c)
        /\ YieldedFor(c, f, MethodName) # {}
        /\ YieldedFor(c, g, MethodName) # {}

\* C17: get_injection_providers and get_entrypoint_providers yield only
\* top-level providers when include_dependencies is false; when it is true
\* each top-level provider is yielded first and all the providers of its own
\* dependencies follow it, before the next top-level provider is created or
\* yielded.
C17_TopLevelThenItsDependencies ==
    \A c \in Containers :
       LET y == yielded[c]
           include_dependencies == request[c].include_dependencies
           tops == {k \in DOMAIN y : y[k].parent = 0}
           between == Len(stack[c]) <= 1
       IN /\ ~include_dependencies =>
               /\ \A k \in DOMAIN y : y[k].parent = 0
               /\ between
               /\ \A i \in DOMAIN instances :
                    instances[i].container = c
                       => \E k \in DOMAIN y : y[k].inst = i
          /\ (include_dependencies /\ between) =>
               /\ \A k \in DOMAIN y \ tops :
                    LET before == {j \in tops : j < k}
                    IN /\ before # {}
                       /\ Descends(c, k, Max(before), Len(y))
               /\ \A i \in DOMAIN instances :
                    instances[i].container = c
                       => \E k \in DOMAIN y : y[k].inst = i
          /\ (include_dependencies /\ Done(c)) =>
               \A t \in tops :
                  \A n \in DependencySlots(instances[y[t].inst].dep_cls) :
                     \E k \in DOMAIN y :
                        /\ k > t
                        /\ y[k].parent = y[t].inst
                        /\ y[k].name = n

\* One container has finished get_injection_providers without dependencies
\* for injections whose class has dependencies; the other has finished it
\* with dependencies, and two top-level providers were each followed by
\* their own.
C17_Witness ==
    /\ NumContainers >= 2
    /\ Done(1) /\ Done(2)
    /\ DependencySlots("T1") # {}
    /\ request[1] = Request("get_injection_providers", FALSE)
    /\ request[2] = Request("get_injection_providers", TRUE)
    /\ Len(yielded[1]) = 2
    /\ \E i, j \in DOMAIN yielded[2] :
         /\ i < j
         /\ yielded[2][i].parent = 0
         /\ yielded[2][j].parent = 0
         /\ \E k \in DOMAIN yielded[2] :
              k > j /\ yielded[2][k].parent = yielded[2][j].inst
         /\ \E k \in DOMAIN yielded[2] :
              i < k /\ k < j /\ yielded[2][k].parent = yielded[2][i].inst

\* The graph of provider classes: an edge from class t to the class that a
\* registered dependency factory on an attribute of t produces.
Edges(t) ==
    {factories[cls_attrs[t][n].id].dep_cls : n \in DependencySlots(t)}
Step(S) == S \cup UNION {Edges(t) : t \in S}
Closure(S) == Step(Step(Step(S)))
Roots ==
    {factories[cls_attrs[Service][n].id].dep_cls : n \in InjectionSlots}
      \cup {factories[f].dep_cls :
               f \in nameko_entrypoints[MethodName].descriptors}
OnCycle(t) == t \in Closure(Edges(t))
ReachableCycle == \E t \in Closure(Roots) : OnCycle(t)

\* C18 as stated: discovery finishes for every finite graph of provider
\* classes, cycles included: it never exceeds the interpreter's recursion
\* limit.
C18_Original ==
    \A c \in Containers : ~(pc[c] = "aborted" /\ raised = "RuntimeError")

\* C18, amended: when no provider class reachable from the service class
\* lies on a cycle of dependency factories, a started discovery finishes and
\* never exceeds the recursion limit; when one does, the discovery never
\* finishes.
C18_Amended ==
    /\ [](\A c \in Containers :
            /\ (pc[c] = "aborted" /\ raised = "RuntimeError") => ReachableCycle
            /\ Done(c) => ~ReachableCycle)
    /\ \A c \in Containers :
         (pc[c] = "run" /\ ~ReachableCycle) ~> Done(c)

\* A finished discovery, free of cycles, of a service whose injection has a
\* dependency that has a dependency of its own.
C18_Witness ==
    /\ Done(1)
    /\ ~ReachableCycle
    /\ \E k \in DOMAIN yielded[1] :
         /\ yielded[1][k].parent # 0
         /\ instances[yielded[1][k].parent].name # ""
         /\ \E j \in DOMAIN yielded[1] :
              yielded[1][j].inst = yielded[1][k].parent
                 /\ yielded[1][j].parent # 0

====
